---- MODULE Spec2Model ----
(***************************************************************************)
(* A model of splendor.cc: the card and deck model, the replay of a move   *)
(* sequence against three decks, the annealing search and the driver.      *)
(* Arrays of the program are 0-based; the table is a function on 0..3, the *)
(* backlog q and the sequences of a State are TLA+ sequences holding the   *)
(* first q_sz (move_sequence_sz, card_sequence_sz) entries of their array. *)
(***************************************************************************)
EXTENDS Integers, Sequences, FiniteSets, TLC

VARIABLES
  pc,          \* position of the program (or of the driver of a unit)
  arg,         \* Card::get_cost: the card and the bonus vector it is applied to
  res,         \* Card::get_cost: the value returned
  d1, d2, d3,  \* the three decks of main
  hist,        \* history of the operations applied (read by the properties only)
  rp,          \* State::play_out: its deck copies, bonus vector, State and ptr
  t1, t2, t3,  \* the deck copies of play_randomized_deck and play_single_setting
  pool,        \* fill_up_randomly: its vector v
  st,          \* play_randomly: the incumbent
  cand,        \* play_randomly: the candidate
  refined,     \* play_randomly: the replayed candidate
  best_state,  \* the global best_state
  cnt          \* loop counters of play_randomly, play_single_setting and main

sv == <<t1, t2, t3, pool, st, cand, refined, best_state, cnt>>

vars == <<pc, arg, res, d1, d2, d3, hist, rp, sv>>

-----------------------------------------------------------------------------
(* Program constants *)

NumColors == 5
TableSlots == 4
QCap == 30
SeqCap == 40
MaxDeficit == 4
TokenSupply == 12
RoundBudget == 28
TokensPerRound == 4
SlotMod == 16

(* Bounds of the model *)

MaxCost == 5
MaxAdds == 7
MaxInput == 35
MaxCand == 11
MaxTier1 == 2
MaxTier2 == 13
MaxTier3 == 5
MaxBacklog == 2
MaxPops == 2
MaxSteps == 4
MaxRuns == 2
MaxTrials == 2
MaxTally == 5
MaxIncumbent == 3
MaxAttempts == 3
MaxKnown == 6
MaxPool == 3
MaxTarget == 3
MaxTokSteps == 1

-----------------------------------------------------------------------------
(* Card *)

Colors == 1..NumColors

\* Card(): type = -1; cost and value are left unset and are never read while
\* type = -1, so they are written 0 here.
NoCard == [cost |-> <<0, 0, 0, 0, 0>>, type |-> -1, value |-> 0]

MkCard(c, t, v) == [cost |-> c, type |-> t, value |-> v]

RECURSIVE get_cost_from(_, _, _, _)
get_cost_from(c, bonuses, i, r) ==
  IF i > NumColors THEN (IF r > TokenSupply THEN -1 ELSE r)
  ELSE IF bonuses[i] >= c.cost[i] THEN get_cost_from(c, bonuses, i + 1, r)
  ELSE IF bonuses[i] + MaxDeficit < c.cost[i] THEN -1
  ELSE get_cost_from(c, bonuses, i + 1, r + (c.cost[i] - bonuses[i]))

\* get_cost with the per-colour test off by one (a deficit of 4 refused).
RECURSIVE get_cost_from_le(_, _, _, _)
get_cost_from_le(c, bonuses, i, r) ==
  IF i > NumColors THEN (IF r > TokenSupply THEN -1 ELSE r)
  ELSE IF bonuses[i] >= c.cost[i] THEN get_cost_from_le(c, bonuses, i + 1, r)
  ELSE IF bonuses[i] + MaxDeficit <= c.cost[i] THEN -1
  ELSE get_cost_from_le(c, bonuses, i + 1, r + (c.cost[i] - bonuses[i]))

get_cost_le(c, bonuses) == get_cost_from_le(c, bonuses, 1, 0)

get_cost(c, bonuses) == get_cost_from(c, bonuses, 1, 0)

-----------------------------------------------------------------------------
(* Deck *)

Slots == 0..(TableSlots - 1)

EmptyDeck ==
  [table |-> [i \in Slots |-> NoCard], table_sz |-> 0, q |-> <<>>, q_sz |-> 0]

\* add_card with room left in q (q_sz < QCap); the write past q is AddOverflow.
add_card(d, c) ==
  IF d.table_sz < TableSlots
  THEN [d EXCEPT !.table[d.table_sz] = c, !.table_sz = @ + 1]
  ELSE [d EXCEPT !.q = Append(@, c), !.q_sz = @ + 1]

\* can_peak_card for idx in 0..3 (idx >= 4 with table_sz = 4 reads past table).
can_peak_card(d, idx) ==
  IF d.table_sz < idx THEN FALSE
  ELSE IF d.table[idx].type = -1 THEN FALSE
  ELSE TRUE

pop_card_norefill(d, idx) == [d EXCEPT !.table[idx].type = -1]

pop_card(d, idx) ==
  LET v == [d EXCEPT !.table[idx].type = -1]
  IN IF d.q_sz > 0
     THEN [v EXCEPT !.table[idx] = d.q[d.q_sz],
                    !.q = SubSeq(d.q, 1, d.q_sz - 1),
                    !.q_sz = d.q_sz - 1]
     ELSE v

Occupied(d) == Cardinality({i \in Slots : d.table[i].type # -1})

Min(a, b) == IF a < b THEN a ELSE b

-----------------------------------------------------------------------------
(* Cards of the sample board in the header comment of splendor.cc *)

C_0_2_0_2_0_green == MkCard(<<0, 2, 0, 2, 0>>, 2, 0)
C_0_0_3_0_0_black == MkCard(<<0, 0, 3, 0, 0>>, 0, 0)
C_6_0_0_0_0_black == MkCard(<<6, 0, 0, 0, 0>>, 0, 3)
C_0_2_4_1_0_black == MkCard(<<0, 2, 4, 1, 0>>, 0, 2)
C_3_2_0_3_0_red == MkCard(<<3, 2, 0, 3, 0>>, 1, 1)
C_1_0_1_1_1_red == MkCard(<<1, 0, 1, 1, 1>>, 1, 0)
C_0_6_0_0_0_red == MkCard(<<0, 6, 0, 0, 0>>, 1, 3)
C_0_0_0_1_2_green == MkCard(<<0, 0, 0, 1, 2>>, 2, 0)
C_6_0_6_8_6_red == MkCard(<<6, 0, 6, 8, 6>>, 1, 10)
C_6_8_6_6_0_white == MkCard(<<6, 8, 6, 6, 0>>, 4, 10)

-----------------------------------------------------------------------------
(* Unused parts of the state, per specification *)

NoArg == [card |-> NoCard, bonus |-> <<0, 0, 0, 0, 0>>]
NoHist == [added |-> 0, popped |-> 0, last |-> "none", mixed |-> FALSE]
NoRp == [ptr |-> 0]
NoCnt == [step |-> 0, run |-> 0, trial |-> 0, at_31 |-> 0, mx |-> 0]

\* State()
NewState ==
  [move_sequence |-> <<>>, points |-> 0, tokens_cost |-> 0, rounds |-> 0,
   card_sequence |-> <<>>]

IdleSearch ==
  /\ t1 = EmptyDeck /\ t2 = EmptyDeck /\ t3 = EmptyDeck
  /\ pool = <<>>
  /\ st = NewState /\ cand = NewState /\ refined = NewState
  /\ best_state = NewState
  /\ cnt = NoCnt

-----------------------------------------------------------------------------
(* Card::get_cost applied to every card and bonus vector of the bounds *)

CostVals == 0..MaxCost
BonusVals == {0, 1}

InitCost ==
  /\ pc = "cost"
  /\ arg \in [card : {MkCard(c, 0, 0) : c \in [Colors -> CostVals]},
              bonus : [Colors -> BonusVals]]
  /\ res = -2
  /\ d1 = EmptyDeck /\ d2 = EmptyDeck /\ d3 = EmptyDeck
  /\ hist = NoHist
  /\ rp = NoRp
  /\ IdleSearch

ApplyCost ==
  /\ pc = "cost"
  /\ res' = get_cost(arg.card, arg.bonus)
  /\ pc' = "cost_done"
  /\ UNCHANGED <<arg, d1, d2, d3, hist, rp, sv>>

NextCost == ApplyCost

SpecCost == InitCost /\ [][NextCost]_vars

Deficit(c, bonuses, i) ==
  IF c.cost[i] > bonuses[i] THEN c.cost[i] - bonuses[i] ELSE 0

RECURSIVE SumDeficits(_, _, _)
SumDeficits(c, bonuses, i) ==
  IF i = 0 THEN 0 ELSE Deficit(c, bonuses, i) + SumDeficits(c, bonuses, i - 1)

\* C5: get_cost returns -1 iff some colour's deficit max(0, cost - bonus)
\* exceeds 4 or the five deficits sum to more than 12; otherwise it returns
\* the sum of the five deficits.
C5_CostIsDeficitSum ==
  pc = "cost_done" =>
    LET tooDeep == \E i \in Colors : Deficit(arg.card, arg.bonus, i) > 4
        total == SumDeficits(arg.card, arg.bonus, NumColors)
    IN /\ (res = -1) <=> (tooDeep \/ total > 12)
       /\ (res # -1) => (res = total)

\* C5 witness: a card within the per-colour limit whose deficits sum past 12.
C5_Witness ==
  /\ pc = "cost_done"
  /\ res = -1
  /\ \A i \in Colors : Deficit(arg.card, arg.bonus, i) <= 4
  /\ \E i \in Colors : arg.bonus[i] > 0 /\ arg.card.cost[i] > 0

-----------------------------------------------------------------------------
(* One Deck driven by add_card and pop_card in any order *)

DeckCards == {C_0_2_0_2_0_green, C_0_0_3_0_0_black}

InitDeck ==
  /\ pc = "deck"
  /\ arg = NoArg /\ res = -2
  /\ d1 = EmptyDeck /\ d2 = EmptyDeck /\ d3 = EmptyDeck
  /\ hist = NoHist
  /\ rp = NoRp
  /\ IdleSearch

DeckAdd ==
  /\ pc = "deck"
  /\ hist.added < MaxAdds
  /\ \E c \in DeckCards : d1' = add_card(d1, c)
  /\ hist' = [hist EXCEPT !.added = @ + 1, !.last = "add",
                          !.mixed = @ \/ hist.popped > 0]
  /\ UNCHANGED <<pc, arg, res, d2, d3, rp, sv>>

\* pop_card is called by process_move only, after can_peak_card.
DeckPop ==
  /\ pc = "deck"
  /\ \E idx \in Slots :
       /\ can_peak_card(d1, idx)
       /\ d1' = pop_card(d1, idx)
  /\ hist' = [hist EXCEPT !.popped = @ + 1, !.last = "pop"]
  /\ UNCHANGED <<pc, arg, res, d2, d3, rp, sv>>

NextDeck == DeckAdd \/ DeckPop

SpecDeck == InitDeck /\ [][NextDeck]_vars

\* C3 as stated: after every pop_card, whatever the order of the add_card and
\* pop_card calls, the occupied table slots number min(4, added - popped).
C3_OccupiedAnyOrder ==
  hist.last = "pop" => Occupied(d1) = Min(4, hist.added - hist.popped)

\* C3 amended: when every add_card precedes the first pop_card (the order of
\* the program: decks are built while reading, popped only during replay),
\* after every pop_card of an occupied slot the occupied table slots number
\* min(4, added - popped).
C3_OccupiedAddsFirst ==
  (hist.last = "pop" /\ ~hist.mixed) =>
    Occupied(d1) = Min(4, hist.added - hist.popped)

\* C3 witness: adds first, the backlog drained by refills, then a slot left
\* empty by a pop.
C3_Witness ==
  /\ hist.last = "pop" /\ ~hist.mixed
  /\ hist.added > 5 /\ hist.popped > hist.added - 4
  /\ Occupied(d1) < 4

-----------------------------------------------------------------------------
(* main: the input loop, one add_card per recognised card *)

InputCards == {C_0_2_0_2_0_green, C_0_2_4_1_0_black, C_6_0_6_8_6_red}

Tier(c) == IF c.value = 0 THEN 1 ELSE IF c.value = 10 THEN 3 ELSE 2

DeckOf(t) == IF t = 1 THEN d1 ELSE IF t = 2 THEN d2 ELSE d3

QFull(d) == d.table_sz >= TableSlots /\ d.q_sz >= QCap

\* The int that the bytes of q[30] leave in q_sz where q_sz follows q in
\* memory (cost[2..4] and type, little-endian).
AliasInt(c) ==
  c.cost[3] + 256 * c.cost[4] + 65536 * c.cost[5] + 16777216 * c.type

InitInput ==
  /\ pc = "read"
  /\ arg = NoArg /\ res = -2
  /\ d1 = EmptyDeck /\ d2 = EmptyDeck /\ d3 = EmptyDeck
  /\ hist = NoHist
  /\ rp = NoRp
  /\ IdleSearch

ReadCard ==
  /\ pc = "read"
  /\ hist.added < MaxInput
  /\ \E c \in InputCards :
       /\ ~QFull(DeckOf(Tier(c)))
       /\ d1' = IF Tier(c) = 1 THEN add_card(d1, c) ELSE d1
       /\ d2' = IF Tier(c) = 2 THEN add_card(d2, c) ELSE d2
       /\ d3' = IF Tier(c) = 3 THEN add_card(d3, c) ELSE d3
  /\ hist' = [hist EXCEPT !.added = @ + 1, !.last = "add"]
  /\ UNCHANGED <<pc, arg, res, rp, sv>>

\* add_card with q_sz = 30: q[q_sz++] = c writes past q. The outcomes: the
\* counter stands at 31, the card's bytes land on the counter, or the run dies.
AddOverflow ==
  /\ pc = "read"
  /\ hist.added < MaxInput
  /\ \E c \in InputCards :
       /\ QFull(DeckOf(Tier(c)))
       /\ \E n \in {QCap, QCap + 1, AliasInt(c)} :
            /\ d1' = IF Tier(c) = 1 THEN [d1 EXCEPT !.q_sz = n] ELSE d1
            /\ d2' = IF Tier(c) = 2 THEN [d2 EXCEPT !.q_sz = n] ELSE d2
            /\ d3' = IF Tier(c) = 3 THEN [d3 EXCEPT !.q_sz = n] ELSE d3
  /\ pc' = "undefined"
  /\ hist' = [hist EXCEPT !.added = @ + 1, !.last = "add"]
  /\ UNCHANGED <<arg, res, rp, sv>>

EndOfInput ==
  /\ pc = "read"
  /\ pc' = "input_done"
  /\ UNCHANGED <<arg, res, d1, d2, d3, hist, rp, sv>>

NextInput == ReadCard \/ AddOverflow \/ EndOfInput

SpecInput == InitInput /\ [][NextInput]_vars

\* C9 as stated: in every reachable state each deck's backlog count q_sz is at
\* most 30 and its table count at most 4, whatever the number of cards read.
C9_BacklogWithinCapacity ==
  \A d \in {d1, d2, d3} :
    d.q_sz <= 30 /\ Len(d.q) <= 30 /\ d.table_sz <= 4

-----------------------------------------------------------------------------
(* State and its replay *)

\* A refusal that still counts a round.
refuse_move_counted(d, s, bonus) ==
  [ok |-> FALSE, d |-> d, s |-> [s EXCEPT !.rounds = @ + 1], bonus |-> bonus,
   card |-> NoCard]

\* process_move's "return false": nothing is written.
refuse_move(d, s, bonus) ==
  [ok |-> FALSE, d |-> d, s |-> s, bonus |-> bonus, card |-> NoCard]

\* The round-budget test with the move itself left out of the count.
over_budget_late(s, cost) ==
  s.rounds + ((s.tokens_cost + 3 + cost) \div TokensPerRound) > RoundBudget

\* The round-budget test with the card's cost left out of the sum.
over_budget_nocost(s, cost) ==
  s.rounds + 1 + ((s.tokens_cost + 3) \div TokensPerRound) > RoundBudget

\* The round-budget test of process_move (C++ int division, operands >= 0).
over_budget(s, cost) ==
  s.rounds + 1 + ((s.tokens_cost + 3 + cost) \div TokensPerRound) > RoundBudget

\* The commit with "*rounds += 1" left out.
commit_move_norounds(d, x, s, bonus, cost) ==
  [ok |-> TRUE,
   d |-> pop_card(d, x),
   s |-> [s EXCEPT !.tokens_cost = @ + cost,
                   !.points = @ + d.table[x].value],
   bonus |-> [bonus EXCEPT ![d.table[x].type + 1] = @ + 1],
   card |-> d.table[x]]

\* The commit of process_move. card is what it writes through card_sequence,
\* to the entry play_out counts in.
commit_move(d, x, s, bonus, cost) ==
  [ok |-> TRUE,
   d |-> pop_card(d, x),
   s |-> [s EXCEPT !.tokens_cost = @ + cost,
                   !.rounds = @ + 1,
                   !.points = @ + d.table[x].value],
   bonus |-> [bonus EXCEPT ![d.table[x].type + 1] = @ + 1],
   card |-> d.table[x]]

\* process_move with the token cost added before the round-budget test.
process_move_early(d, x, s, bonus) ==
  IF ~can_peak_card(d, x) THEN refuse_move(d, s, bonus)
  ELSE
    LET cost == get_cost(d.table[x], bonus)
    IN IF cost = -1 THEN refuse_move(d, s, bonus)
       ELSE IF over_budget(s, cost)
       THEN refuse_move(d, [s EXCEPT !.tokens_cost = @ + cost], bonus)
       ELSE commit_move(d, x, s, bonus, cost)

\* Deck::process_move on table slot x (0..3). The pointers it is handed are
\* the fields s and bonus of the result.
process_move(d, x, s, bonus) ==
  IF ~can_peak_card(d, x) THEN refuse_move(d, s, bonus)
  ELSE
    LET cost == get_cost(d.table[x], bonus)
    IN IF cost = -1 THEN refuse_move(d, s, bonus)
       ELSE IF over_budget(s, cost) THEN refuse_move(d, s, bonus)
       ELSE commit_move(d, x, s, bonus, cost)

\* The body of play_out's loop for one token: r holds play_out's deck copies
\* (d1, d2, d3), its bonus vector and the State being filled (s).
PlayToken(r, move) ==
  LET x == move % SlotMod
      k == IF x < 4 THEN 1 ELSE IF x < 8 THEN 2 ELSE 3
      moved == IF k = 1 THEN process_move(r.d1, x, r.s, r.bonus)
               ELSE IF k = 2 THEN process_move(r.d2, x - 4, r.s, r.bonus)
               ELSE process_move(r.d3, x - 8, r.s, r.bonus)
      After(m) ==
        [d1 |-> IF k = 1 THEN m.d ELSE r.d1,
         d2 |-> IF k = 2 THEN m.d ELSE r.d2,
         d3 |-> IF k = 3 THEN m.d ELSE r.d3,
         bonus |-> m.bonus,
         s |-> IF m.ok
               THEN [m.s EXCEPT !.move_sequence = Append(@, x),
                                !.card_sequence = Append(@, m.card)]
               ELSE m.s]
  IN CHOOSE out \in {After(m) : m \in {moved}} : TRUE

\* play_out(d1, d2, d3, cand) from its first statement to the end of its loop.
RECURSIVE PlayFrom(_, _, _)
PlayFrom(r, moves, ptr) ==
  IF ptr > Len(moves) THEN r
  ELSE CHOOSE out \in {PlayFrom(n, moves, ptr + 1) :
                         n \in {PlayToken(r, moves[ptr])}} : TRUE

PlayStart(a, b, c) ==
  [d1 |-> a, d2 |-> b, d3 |-> c, bonus |-> <<0, 0, 0, 0, 0>>, s |-> NewState]

play_out(a, b, c, moves) == PlayFrom(PlayStart(a, b, c), moves, 1).s

-----------------------------------------------------------------------------
(* Boards: the decks main builds from an input, one add_card per card *)

RECURSIVE BuildDeck(_, _)
BuildDeck(cards, n) ==
  IF n = 0 THEN EmptyDeck ELSE add_card(BuildDeck(cards, n - 1), cards[n])

Copies(c, n) == [i \in 1..n |-> c]

DeckOfCopies(c, n) == BuildDeck(Copies(c, n), n)

Tier1Cards == {C_0_0_3_0_0_black}
Tier2Cards == {C_0_2_4_1_0_black, C_3_2_0_3_0_red}
Tier3Cards == {C_6_0_6_8_6_red}

-----------------------------------------------------------------------------
(* One replay, token by token, of any candidate over ReplayTokens *)

ReplayTokens == {0, 1, 5, 8}

InitReplay ==
  /\ pc = "replay"
  /\ arg = NoArg /\ res = -2
  /\ \E c \in Tier1Cards, n \in 0..MaxTier1 : d1 = DeckOfCopies(c, n)
  /\ \E c \in Tier2Cards, n \in 0..MaxTier2 : d2 = DeckOfCopies(c, n)
  /\ \E c \in Tier3Cards, n \in 0..1 : d3 = DeckOfCopies(c, n)
  /\ hist = [tok |-> -1, ok |-> FALSE, high |-> TRUE]
  /\ rp = PlayStart(d1, d2, d3) @@ [ptr |-> 0]
  /\ IdleSearch

\* One turn of play_out's while loop; the candidate's next token is any token.
ReplayStep ==
  /\ pc = "replay"
  /\ rp.ptr < MaxCand
  /\ \E move \in ReplayTokens :
       /\ rp' = PlayToken(rp, move) @@ [ptr |-> rp.ptr + 1]
       /\ hist' = [tok |-> move,
                   ok |-> Len(rp'.s.move_sequence) > Len(rp.s.move_sequence),
                   high |-> hist.high /\ move >= 12]
  /\ UNCHANGED <<pc, arg, res, d1, d2, d3, sv>>

NextReplay == ReplayStep

SpecReplay == InitReplay /\ [][NextReplay]_vars

\* The card a token addresses in play_out's decks: deck x / 4, slot x mod 4.
Addressed(r, move) ==
  LET x == move % 16
  IN IF x < 4 THEN r.d1.table[x]
     ELSE IF x < 8 THEN r.d2.table[x - 4] ELSE r.d3.table[x - 8]

CeilDiv(a, b) == (a + b - 1) \div b

\* C1 as stated: no step of a replay changes the State (commits a move) when
\* rounds + 1 + ceil((tokens_cost + 3 + cost) / 4) > 28, with rounds and
\* tokens_cost taken before the move and cost the addressed card's cost
\* against the bonus vector before the move.
C1_BudgetCeilOfPlus3 ==
  [][(pc = "replay" /\ rp'.s # rp.s) =>
       LET cost == get_cost(Addressed(rp, hist'.tok), rp.bonus)
       IN rp.s.rounds + 1 + CeilDiv(rp.s.tokens_cost + 3 + cost, 4) <= 28]_vars

\* C1 amended: no step of a replay commits a move when
\* rounds + 1 + floor((tokens_cost + 3 + cost) / 4) > 28, that is when
\* rounds + 1 + ceil((tokens_cost + cost) / 4) > 28: the "+ 3" with the
\* integer division is the rounding up, not an addition to it.
C1_BudgetFloorOfPlus3 ==
  [][(pc = "replay" /\ rp'.s # rp.s) =>
       LET cost == get_cost(Addressed(rp, hist'.tok), rp.bonus)
       IN /\ cost # -1
          /\ rp.s.rounds + 1 + CeilDiv(rp.s.tokens_cost + cost, 4) <= 28
          /\ rp.s.rounds + 1 + ((rp.s.tokens_cost + 3 + cost) \div 4) <= 28]_vars

\* C1 witness: a committed move that uses the round budget up exactly.
C1_Witness ==
  /\ pc = "replay" /\ hist.ok
  /\ rp.s.rounds + CeilDiv(rp.s.tokens_cost, 4) = 28

\* C4: from one token of a replay to the next, points, tokens_cost and rounds
\* do not decrease, and after every token rounds equals the number of moves
\* committed: the length of the resolved move sequence and of the resolved
\* card sequence.
C4_CountersMonotone ==
  [][pc = "replay" =>
       /\ rp'.s.points >= rp.s.points
       /\ rp'.s.tokens_cost >= rp.s.tokens_cost
       /\ rp'.s.rounds >= rp.s.rounds
       /\ rp'.s.rounds = Len(rp'.s.move_sequence)
       /\ rp'.s.rounds = Len(rp'.s.card_sequence)
       /\ (hist'.ok <=> rp'.s.rounds = rp.s.rounds + 1)]_vars

\* C4 witness: a replay with moves committed from two decks, points scored,
\* and a token dropped.
C4_Witness ==
  /\ pc = "replay"
  /\ rp.s.rounds >= 3 /\ rp.s.points >= 2 /\ rp.s.tokens_cost >= 10
  /\ rp.ptr > rp.s.rounds
  /\ \E i \in 1..Len(rp.s.move_sequence) : rp.s.move_sequence[i] = 0

\* C6: a token that is not committed (the resolved sequence does not grow)
\* leaves points, tokens_cost, rounds, the bonus vector, both resolved
\* sequences and the three decks as they were; only ptr moves on.
C6_RejectedChangesNothing ==
  [][(pc = "replay" /\ ~hist'.ok) =>
       /\ rp'.s = rp.s
       /\ rp'.bonus = rp.bonus
       /\ rp'.d1 = rp.d1 /\ rp'.d2 = rp.d2 /\ rp'.d3 = rp.d3
       /\ rp'.ptr = rp.ptr + 1]_vars

\* C6 witness: a token refused by the round budget alone (its slot holds a
\* card whose cost is feasible), after moves were committed.
C6_Witness ==
  /\ pc = "replay" /\ ~hist.ok /\ hist.tok = 5
  /\ rp.s.rounds >= 1
  /\ can_peak_card(rp.d2, 1)
  /\ get_cost(rp.d2.table[1], rp.bonus) # -1

-----------------------------------------------------------------------------
(* One replay of a candidate whose tokens are all >= 12 *)

HighTokens == {12, 13, 15, 16}

\* A byte of memory that was never written.
UnsetBytes == {-1, 0, 2}

\* x >= 8 goes to d3.process_move(x - 8); can_peak_card(idx) lets idx = 4
\* through its first test when table_sz = 4, and then reads table[4].
ReadsPastTable(r, move) ==
  LET x == move % SlotMod
  IN x >= 8 /\ x - 8 >= TableSlots /\ ~(r.d3.table_sz < x - 8)

\* What table[4] can hold: where table_sz and q follow the table in memory,
\* its cost[0..3] are the bytes of table_sz, and its cost[4], type and value
\* are the first three bytes of q[0] (written by main when the deck has a
\* backlog, never written otherwise).
PastTable(d) ==
  IF d.q_sz > 0
  THEN {MkCard(<<d.table_sz, 0, 0, 0, d.q[1].cost[1]>>,
               d.q[1].cost[2], d.q[1].cost[3])}
  ELSE {MkCard(<<d.table_sz, 0, 0, 0, a>>, t, v) :
          a \in UnsetBytes, t \in UnsetBytes, v \in UnsetBytes}

InitReplayAny ==
  /\ pc = "replay_any"
  /\ arg = NoArg /\ res = -2
  /\ \E c \in Tier1Cards, n \in 0..1 : d1 = DeckOfCopies(c, n)
  /\ d2 = EmptyDeck
  /\ \E c \in Tier3Cards, n \in 0..MaxTier3 : d3 = DeckOfCopies(c, n)
  /\ hist = [tok |-> -1, ok |-> FALSE, high |-> TRUE]
  /\ rp = PlayStart(d1, d2, d3) @@ [ptr |-> 0]
  /\ IdleSearch

ReplayStepAny ==
  /\ pc = "replay_any"
  /\ rp.ptr < MaxCand
  /\ \E move \in HighTokens :
       /\ ~ReadsPastTable(rp, move)
       /\ rp' = PlayToken(rp, move) @@ [ptr |-> rp.ptr + 1]
       /\ hist' = [tok |-> move,
                   ok |-> Len(rp'.s.move_sequence) > Len(rp.s.move_sequence),
                   high |-> hist.high /\ move >= 12]
  /\ UNCHANGED <<pc, arg, res, d1, d2, d3, sv>>

\* process_move(4, ...) on a deck with table_sz = 4: the card read is any
\* card table[4] can hold. A refusal writes nothing and the replay goes on; a
\* commit adds to the counters, and then writes past the table (pop_card(4))
\* and, for a type outside 0..4, past the bonus vector.
ReplayPastTable ==
  /\ pc = "replay_any"
  /\ rp.ptr < MaxCand
  /\ \E move \in HighTokens :
       /\ ReadsPastTable(rp, move)
       /\ \E c \in PastTable(d3) :
            LET cost == get_cost(c, rp.bonus)
                refused == c.type = -1 \/ cost = -1 \/ over_budget(rp.s, cost)
            IN /\ rp' = IF refused
                        THEN [rp EXCEPT !.ptr = @ + 1]
                        ELSE [rp EXCEPT
                                !.ptr = @ + 1,
                                !.s = [@ EXCEPT
                                         !.tokens_cost = @ + cost,
                                         !.rounds = @ + 1,
                                         !.points = @ + c.value,
                                         !.move_sequence = Append(@, move % SlotMod),
                                         !.card_sequence = Append(@, c)]]
               /\ pc' = IF refused THEN pc ELSE "undefined"
               /\ hist' = [tok |-> move, ok |-> ~refused,
                           high |-> hist.high /\ move >= 12]
  /\ UNCHANGED <<arg, res, d1, d2, d3, sv>>

NextReplayAny == ReplayStepAny \/ ReplayPastTable

SpecReplayAny == InitReplayAny /\ [][NextReplayAny]_vars

\* C2 as stated: while every token replayed so far is >= 12, the resolved
\* State is empty: no move committed, points = rounds = tokens_cost = 0.
C2_HighTokensResolveEmpty ==
  hist.high => rp.s = NewState

-----------------------------------------------------------------------------
(* play_randomized_deck and play_single_setting: completion and reversal *)

DesiredSize == 25

\* full_deck_set, in the order of Card::operator< (cost, then type, then
\* value), cut to cards of the sample board.
FullDeck ==
  <<C_0_0_0_1_2_green, C_0_0_3_0_0_black, C_0_2_0_2_0_green,
    C_0_2_4_1_0_black, C_3_2_0_3_0_red, C_6_0_6_8_6_red, C_6_8_6_6_0_white>>

to_set(d) ==
  {d.table[i] : i \in 0..(d.table_sz - 1)} \cup {d.q[i] : i \in 1..d.q_sz}

InTier1(c) == c.value = 0
InTier2(c) == c.value # 0 /\ c.value # 10

\* remaining1 and remaining2 of play_randomized_deck
remaining1(d) ==
  LET ds == to_set(d)
      Keep(c) == InTier1(c) /\ c \notin ds
  IN SelectSeq(FullDeck, Keep)

remaining2(d) ==
  LET ds == to_set(d)
      Keep(c) == InTier2(c) /\ c \notin ds
  IN SelectSeq(FullDeck, Keep)

\* swap(v[x], v.back()) without v.pop_back()
SwapKeep(v, x) ==
  [i \in 1..Len(v) |-> IF i = x THEN v[Len(v)]
                       ELSE IF i = Len(v) THEN v[x] ELSE v[i]]

\* swap(v[x], v.back()); v.pop_back(), x counted from 1
SwapPop(v, x) ==
  [i \in 1..(Len(v) - 1) |-> IF i = x THEN v[Len(v)] ELSE v[i]]

Reverse(q) == [i \in 1..Len(q) |-> q[Len(q) + 1 - i]]

\* reverse(d.q, d.q + d.q_sz)
reverse_q(d) == [d EXCEPT !.q = Reverse(d.q)]

\* One turn of the loops of fill_up_randomly(desired_size, v, twister) on
\* deck d with x the number drawn; d as it is when neither loop goes on.
fill_step_to(desired_size, d, v, x) ==
  IF d.table_sz < TableSlots /\ Len(v) > 0
  THEN [d EXCEPT !.table[d.table_sz] = v[x], !.table_sz = @ + 1]
  ELSE IF d.q_sz < desired_size /\ Len(v) > 0
  THEN [d EXCEPT !.q = Append(@, v[x]), !.q_sz = @ + 1]
  ELSE d

fill_goes_on_to(desired_size, d, v) ==
  Len(v) > 0 /\ (d.table_sz < TableSlots \/ d.q_sz < desired_size)

\* The calls of play_randomized_deck: desired_size is 25.
fill_step(d, v, x) == fill_step_to(DesiredSize, d, v, x)

fill_goes_on(d, v) == fill_goes_on_to(DesiredSize, d, v)

\* play_randomized_deck is entered: its decks are copies of main's.
StartTrial ==
  /\ pc = "trial"
  /\ t1' = d1 /\ t2' = d2 /\ t3' = d3
  /\ pool' = remaining1(d1)
  /\ pc' = "fill1"
  /\ UNCHANGED <<arg, res, d1, d2, d3, hist, rp, st, cand, refined,
                 best_state, cnt>>

Fill1 ==
  /\ pc = "fill1"
  /\ fill_goes_on(t1, pool)
  /\ \E x \in 1..Len(pool) :
       /\ t1' = fill_step(t1, pool, x)
       /\ pool' = SwapPop(pool, x)
  /\ UNCHANGED <<pc, arg, res, d1, d2, d3, hist, rp, t2, t3, st, cand,
                 refined, best_state, cnt>>

Fill1Done ==
  /\ pc = "fill1"
  /\ ~fill_goes_on(t1, pool)
  /\ pool' = remaining2(d2)
  /\ pc' = "fill2"
  /\ UNCHANGED <<arg, res, d1, d2, d3, hist, rp, t1, t2, t3, st, cand,
                 refined, best_state, cnt>>

Fill2 ==
  /\ pc = "fill2"
  /\ fill_goes_on(t2, pool)
  /\ \E x \in 1..Len(pool) :
       /\ t2' = fill_step(t2, pool, x)
       /\ pool' = SwapPop(pool, x)
  /\ UNCHANGED <<pc, arg, res, d1, d2, d3, hist, rp, t1, t3, st, cand,
                 refined, best_state, cnt>>

\* best_state left as the trial before left it.
start_best_kept(prev) == prev

\* best_state = State(), before the runs of a completion.
start_best(prev) == NewState

\* The second fill returns; best_state = State(); play_single_setting
\* reverses the backlogs of its d1 and d2. next is where the model goes on.
BeginSetting(next) ==
  /\ pc = "fill2"
  /\ ~fill_goes_on(t2, pool)
  /\ best_state' = start_best(best_state)
  /\ t1' = reverse_q(t1)
  /\ t2' = reverse_q(t2)
  /\ pool' = <<>>
  /\ cnt' = [cnt EXCEPT !.run = 0]
  /\ pc' = next
  /\ UNCHANGED <<arg, res, d1, d2, d3, rp, t3, st, cand, refined>>

-----------------------------------------------------------------------------
(* One completion, then the cards its decks reveal when slots are bought *)

TableOf(c, n, tail) ==
  IF n < TableSlots THEN Copies(c, n) ELSE Copies(c, n) \o tail

Tails(cards) == UNION {[1..n -> cards] : n \in 0..MaxBacklog}

TrialDecks(c, cards) ==
  {BuildDeck(l, Len(l)) :
     l \in {TableOf(c, n, tail) : n \in 0..TableSlots, tail \in Tails(cards)}}

InitTrial ==
  /\ pc = "trial"
  /\ arg = NoArg /\ res = -2
  /\ d1 \in TrialDecks(C_0_0_3_0_0_black,
                        {C_0_0_3_0_0_black, C_0_2_0_2_0_green})
  /\ d2 \in TrialDecks(C_0_2_4_1_0_black, {})
  /\ d3 \in TrialDecks(C_6_0_6_8_6_red, {C_6_0_6_8_6_red, C_6_8_6_6_0_white})
  /\ hist = [rev |-> <<<<>>, <<>>, <<>>>>, pops |-> 0]
  /\ rp = NoRp
  /\ IdleSearch

TrialBeginSetting == BeginSetting("reveal") /\ UNCHANGED hist

\* The pop_card of a committed move on deck k of a replay (play_out works on
\* copies of t1, t2, t3), with the card the refill puts on the table.
RevealPop ==
  /\ pc = "reveal"
  /\ hist.pops < MaxPops
  /\ \E k \in 1..3, idx \in Slots :
       LET d == IF k = 1 THEN t1 ELSE IF k = 2 THEN t2 ELSE t3
           e == pop_card(d, idx)
       IN /\ can_peak_card(d, idx)
          /\ t1' = IF k = 1 THEN e ELSE t1
          /\ t2' = IF k = 2 THEN e ELSE t2
          /\ t3' = IF k = 3 THEN e ELSE t3
          /\ hist' = [rev |-> IF d.q_sz > 0
                               THEN [hist.rev EXCEPT ![k] = Append(@, e.table[idx])]
                               ELSE hist.rev,
                      pops |-> hist.pops + 1]
  /\ UNCHANGED <<pc, arg, res, d1, d2, d3, rp, pool, st, cand, refined,
                 best_state, cnt>>

NextTrial ==
  StartTrial \/ Fill1 \/ Fill1Done \/ Fill2 \/ TrialBeginSetting \/ RevealPop

SpecTrial == InitTrial /\ [][NextTrial]_vars

\* The known backlog of deck k: the cards of its tier the input gave after
\* the first four, in input order (main's q).
Known(k) == IF k = 1 THEN d1.q ELSE IF k = 2 THEN d2.q ELSE d3.q

\* C8 as stated: in each deck, the i-th card revealed by a refill is the
\* i-th card of the known backlog in input order, as long as known cards
\* are left (so every known card comes before any completed one).
C8_KnownRevealedInInputOrder ==
  \A k \in 1..3 :
    \A i \in 1..Len(hist.rev[k]) :
      i <= Len(Known(k)) => hist.rev[k][i] = Known(k)[i]

-----------------------------------------------------------------------------
(* State::mutate *)

InsertLimit == 30
WinPoints == 31

\* The tokens drawn by next_int(10), cut to a few of them.
GenTokens == {0, 4, 5}

\* CHANGE at pos (from 0) to the token next, the first draw that differs.
mutate_change(ms, pos, next) ==
  IF Len(ms) = 0 THEN [ok |-> FALSE, ms |-> ms]
  ELSE [ok |-> TRUE, ms |-> [ms EXCEPT ![pos + 1] = next]]

\* INSERT with the test of the length turned round.
mutate_insert_never(ms, pos, tok) ==
  IF Len(ms) < InsertLimit THEN [ok |-> FALSE, ms |-> ms]
  ELSE [ok |-> TRUE,
        ms |-> [i \in 1..(Len(ms) + 1) |->
                  IF i <= pos THEN ms[i]
                  ELSE IF i = pos + 1 THEN tok ELSE ms[i - 1]]]

\* INSERT of tok at pos (from 0), the suffix shifted right.
mutate_insert(ms, pos, tok) ==
  IF Len(ms) > InsertLimit THEN [ok |-> FALSE, ms |-> ms]
  ELSE [ok |-> TRUE,
        ms |-> [i \in 1..(Len(ms) + 1) |->
                  IF i <= pos THEN ms[i]
                  ELSE IF i = pos + 1 THEN tok ELSE ms[i - 1]]]

\* SWAP without the test of equal tokens.
mutate_swap_equal(ms, px, py) ==
  IF Len(ms) < 3 THEN [ok |-> FALSE, ms |-> ms]
  ELSE IF px = py THEN [ok |-> FALSE, ms |-> ms]
  ELSE [ok |-> TRUE,
        ms |-> [ms EXCEPT ![px + 1] = ms[py + 1], ![py + 1] = ms[px + 1]]]

\* SWAP of positions px and py (from 0).
mutate_swap(ms, px, py) ==
  IF Len(ms) < 3 THEN [ok |-> FALSE, ms |-> ms]
  ELSE IF px = py THEN [ok |-> FALSE, ms |-> ms]
  ELSE IF ms[px + 1] = ms[py + 1] THEN [ok |-> FALSE, ms |-> ms]
  ELSE [ok |-> TRUE,
        ms |-> [ms EXCEPT ![px + 1] = ms[py + 1], ![py + 1] = ms[px + 1]]]

\* State cand = st; cand.card_sequence_sz = 0: the copy constructor copies
\* the moves and the three counters, not the cards.
CandOf(s, ms) == [s EXCEPT !.move_sequence = ms, !.card_sequence = <<>>]

-----------------------------------------------------------------------------
(* play_randomly, play_single_setting and the trials of main *)

\* best_state updated on a tie as well.
update_best_ge(best, r) == IF r.points >= best.points THEN r ELSE best

\* if (refined.points > best_state.points) best_state.DeepCopy(refined)
update_best(best, r) == IF r.points > best.points THEN r ELSE best

\* play_out started on the incumbent instead of a fresh State.
replay_candidate_reused(a, b, c, moves) ==
  PlayFrom([PlayStart(a, b, c) EXCEPT !.s = st], moves, 1).s

\* State refined; refined.play_out(d1, d2, d3, cand)
replay_candidate(a, b, c, moves) == play_out(a, b, c, moves)

\* play_out given its decks by reference: the caller's decks are the replay's.
decks_after_replay_byref(a, b, c, moves) ==
  LET r == PlayFrom(PlayStart(a, b, c), moves, 1) IN <<r.d1, r.d2, r.d3>>

\* play_out(Deck d1, Deck d2, Deck d3, ...) takes its decks by value: the
\* decks of play_randomly are as they were when the call returns.
decks_after_replay(a, b, c, moves) == <<a, b, c>>

InitSearch ==
  /\ pc = "trial"
  /\ arg = NoArg /\ res = -2
  /\ d1 = DeckOfCopies(C_0_0_3_0_0_black, 1)
  /\ d2 = DeckOfCopies(C_0_2_4_1_0_black, 1)
  /\ \E n \in 0..1 : d3 = DeckOfCopies(C_6_0_6_8_6_red, n)
  /\ hist = [maxpts |-> 0, prev |-> 0]
  /\ rp = NoRp
  /\ IdleSearch

\* hist.maxpts is the most points of a replay of this completion so far,
\* hist.prev the points of best_state before its last test.
SearchBeginSetting ==
  BeginSetting("setting") /\ hist' = [maxpts |-> 0, prev |-> 0]

\* play_single_setting: i < 10, play_randomly is entered (State st).
StartRun ==
  /\ pc = "setting"
  /\ cnt.run < MaxRuns
  /\ st' = NewState
  /\ cnt' = [cnt EXCEPT !.step = 0]
  /\ pc' = "mutate"
  /\ UNCHANGED <<arg, res, d1, d2, d3, hist, rp, t1, t2, t3, pool, cand,
                 refined, best_state>>

MutateTo(ms) ==
  /\ cand' = CandOf(st, ms)
  /\ pc' = "play"
  /\ UNCHANGED <<arg, res, d1, d2, d3, hist, rp, t1, t2, t3, pool, st,
                 refined, best_state, cnt>>

MutateChange ==
  /\ pc = "mutate" /\ cnt.step < MaxSteps
  /\ \E pos \in 0..(Len(st.move_sequence) - 1) :
       \E next \in GenTokens \ {st.move_sequence[pos + 1]} :
         LET m == mutate_change(st.move_sequence, pos, next)
         IN m.ok /\ MutateTo(m.ms)

MutateInsert ==
  /\ pc = "mutate" /\ cnt.step < MaxSteps
  /\ \E pos \in 0..Len(st.move_sequence), tok \in GenTokens :
       LET m == mutate_insert(st.move_sequence, pos, tok)
       IN m.ok /\ MutateTo(m.ms)

MutateSwap ==
  /\ pc = "mutate" /\ cnt.step < MaxSteps
  /\ \E px, py \in 0..(Len(st.move_sequence) - 1) :
       LET m == mutate_swap(st.move_sequence, px, py)
       IN m.ok /\ MutateTo(m.ms)

\* A call of mutate that returns false: the candidate is as it was and the
\* loop "while (!cand.mutate(...)) {}" calls again.
MutateFail ==
  /\ pc = "mutate" /\ cnt.step < MaxSteps
  /\ \/ ~mutate_change(st.move_sequence, 0, 0).ok
     \/ ~mutate_insert(st.move_sequence, 0, 0).ok
     \/ \E px, py \in 0..(Len(st.move_sequence) - 1) :
          ~mutate_swap(st.move_sequence, px, py).ok
     \/ ~mutate_swap(st.move_sequence, 0, 0).ok
  /\ UNCHANGED vars

Play ==
  /\ pc = "play"
  /\ LET r == replay_candidate(t1, t2, t3, cand.move_sequence)
         after == decks_after_replay(t1, t2, t3, cand.move_sequence)
     IN /\ refined' = r
        /\ t1' = after[1] /\ t2' = after[2] /\ t3' = after[3]
        /\ hist' = [hist EXCEPT !.maxpts = IF r.points > @
                                            THEN r.points ELSE @]
  /\ pc' = "best"
  /\ UNCHANGED <<arg, res, d1, d2, d3, rp, pool, st, cand, best_state, cnt>>

Best ==
  /\ pc = "best"
  /\ best_state' = update_best(best_state, refined)
  /\ hist' = [hist EXCEPT !.prev = best_state.points]
  /\ pc' = "accept"
  /\ UNCHANGED <<arg, res, d1, d2, d3, rp, t1, t2, t3, pool, st, cand,
                 refined, cnt>>

\* exp((refined.points - st.points) / temp) > next_float() holds: st = refined.
\* It can hold whatever the points are (the draw can be 0). The turn of the
\* loop ends: its locals cand and refined are gone, temp *= cooldown.
AcceptRefined ==
  /\ pc = "accept"
  /\ st' = refined
  /\ cand' = NewState /\ refined' = NewState
  /\ cnt' = [cnt EXCEPT !.step = @ + 1]
  /\ pc' = "mutate"
  /\ UNCHANGED <<arg, res, d1, d2, d3, hist, rp, t1, t2, t3, pool,
                 best_state>>

\* The test fails. With fewer points the exponential is below 1 and a draw
\* can exceed it; with equal points it is 1.0 and only the draw 1.0 is not
\* below it (next_float rounds a * 2^-31 to float, which gives 1.0 for the
\* largest values of a); with more points it is above every draw.
KeepIncumbent ==
  /\ pc = "accept"
  /\ refined.points <= st.points
  /\ cand' = NewState /\ refined' = NewState
  /\ cnt' = [cnt EXCEPT !.step = @ + 1]
  /\ pc' = "mutate"
  /\ UNCHANGED <<arg, res, d1, d2, d3, hist, rp, t1, t2, t3, pool, st,
                 best_state>>

\* temp > final_temp fails: play_randomly returns and its local st is gone,
\* ++i.
EndRun ==
  /\ pc = "mutate"
  /\ cnt.step >= MaxSteps
  /\ cnt' = [cnt EXCEPT !.run = @ + 1, !.step = 0]
  /\ st' = NewState
  /\ pc' = "setting"
  /\ UNCHANGED <<arg, res, d1, d2, d3, hist, rp, t1, t2, t3, pool, cand,
                 refined, best_state>>

\* i < 10 fails: back in main's loop, which counts the trial.
EndTrial ==
  /\ pc = "setting"
  /\ cnt.run >= MaxRuns
  /\ cnt' = [cnt EXCEPT
               !.trial = @ + 1,
               !.at_31 = IF best_state.points >= WinPoints THEN @ + 1 ELSE @,
               !.mx = IF best_state.points > @ THEN best_state.points ELSE @]
  /\ pc' = IF cnt.trial + 1 < MaxTrials THEN "trial" ELSE "done"
  /\ UNCHANGED <<arg, res, d1, d2, d3, hist, rp, t1, t2, t3, pool, st, cand,
                 refined, best_state>>

NextSearch ==
  \/ StartTrial \/ Fill1 \/ Fill1Done \/ Fill2 \/ SearchBeginSetting
  \/ StartRun \/ MutateChange \/ MutateInsert \/ MutateSwap \/ MutateFail
  \/ Play \/ Best \/ AcceptRefined \/ KeepIncumbent \/ EndRun \/ EndTrial

SpecSearch == InitSearch /\ [][NextSearch]_vars

\* C7: within one completion (every step but the reset that begins the
\* next one) the points of best_state never decrease; best_state changes only
\* at the test of a replay with strictly more points than it has, and is that
\* replay afterwards; outside that test its points are the most points of a
\* replay of this completion so far, 0 when there was none.
C7_BestOnlyOnStrictImprovement ==
  [][~(pc = "fill2" /\ pc' = "setting") =>
       /\ best_state'.points >= best_state.points
       /\ best_state' # best_state =>
            /\ pc = "best"
            /\ refined.points > best_state.points
            /\ best_state' = refined
       /\ pc' # "best" => best_state'.points = hist'.maxpts]_vars

\* In the second run of a completion a replay beats a best of the first run.
C7_Witness ==
  /\ pc = "accept"
  /\ cnt.run >= 1
  /\ hist.prev > 0
  /\ best_state.points > hist.prev
  /\ best_state = refined

\* C10: the incumbent, the candidate and the replay (and the best replay)
\* hold at most 40 tokens and 40 cards: a candidate has at most one token
\* more than the incumbent and at most 31, a replay has no more tokens than
\* its candidate, and the incumbent is a replay, one token per round within
\* the round budget.
C10_SequencesWithinBuffer ==
  /\ \A s \in {st, cand, refined, best_state} :
       /\ Len(s.move_sequence) <= SeqCap
       /\ Len(s.card_sequence) <= SeqCap
  /\ Len(st.move_sequence) = st.rounds /\ st.rounds <= RoundBudget
  /\ pc = "play" =>
       /\ Len(cand.move_sequence) <= Len(st.move_sequence) + 1
       /\ Len(cand.move_sequence) <= InsertLimit + 1
  /\ pc \in {"best", "accept"} =>
       /\ Len(refined.move_sequence) <= Len(cand.move_sequence)
       /\ Len(refined.card_sequence) = Len(refined.move_sequence)

\* An INSERT made the candidate longer than the incumbent and the replay
\* committed every token of it.
C10_Witness ==
  /\ pc = "accept"
  /\ Len(cand.move_sequence) = Len(st.move_sequence) + 1
  /\ Len(cand.move_sequence) >= 3
  /\ Len(refined.move_sequence) = Len(cand.move_sequence)

\* C11: no step changes the decks built from the input; a trial starts on
\* copies of them; from the start of the search runs of a completion to its
\* end no step changes the completed decks, so a candidate replayed again
\* after its replay resolves to the same state.
C11_TrialsWorkOnCopies ==
  [][/\ d1' = d1 /\ d2' = d2 /\ d3' = d3
     /\ (pc = "trial" /\ pc' = "fill1") =>
          (t1' = d1 /\ t2' = d2 /\ t3' = d3)
     /\ pc \in {"setting", "mutate", "play", "best", "accept"} =>
          (t1' = t1 /\ t2' = t2 /\ t3' = t3)
     /\ pc = "play" =>
          refined' = play_out(t1', t2', t3', cand.move_sequence)]_vars

\* In the second trial, second run, a replay has bought two cards.
C11_Witness ==
  /\ pc = "best"
  /\ cnt.trial = 1 /\ cnt.run = 1
  /\ Len(refined.move_sequence) >= 2
  /\ t1 # d1

-----------------------------------------------------------------------------
(* Twister::next_int(int max) *)

IntMax == 2147483647

RECURSIVE BitOr(_, _)
BitOr(a, b) ==
  IF a = 0 THEN b
  ELSE IF b = 0 THEN a
  ELSE (IF a % 2 = 1 \/ b % 2 = 1 THEN 1 ELSE 0)
       + 2 * BitOr(a \div 2, b \div 2)

RECURSIVE BitAnd(_, _)
BitAnd(a, b) ==
  IF a = 0 \/ b = 0 THEN 0
  ELSE (IF a % 2 = 1 /\ b % 2 = 1 THEN 1 ELSE 0)
       + 2 * BitAnd(a \div 2, b \div 2)

\* used = max - 1 followed by the five lines "used |= used >> k"; for
\* max >= 1 the value is below 2^31.
smear(max) ==
  LET u0 == max - 1
      u1 == BitOr(u0, u0 \div 2)
      u2 == BitOr(u1, u1 \div 4)
      u3 == BitOr(u2, u2 \div 16)
      u4 == BitOr(u3, u3 \div 256)
  IN BitOr(u4, u4 \div 65536)

\* A 32-bit word as bit 31 (hi) and the 31 bits below it (lo): what
\* extract_number returns, read as unsigned.
Word(hi, lo) == [hi |-> hi, lo |-> lo]

\* a = next_int() & used with used below 2^31: bit 31 of the result is 0
\* and the int a is the value of the low bits.
mask_draw(w, used) == BitAnd(w.lo, used)

\* The loop test with > in place of >=.
redraw_gt(a, max) == a > max

\* while (a >= max)
redraw(a, max) == a >= max

TwBounds ==
  (1..18) \cup {25, 65536, 65537, 1073741824, 1073741825, IntMax}

TwWords ==
  {Word(h, l) : h \in {0, 1},
                l \in (0..17) \cup {24, 25, 31, 65535, 65536, 65537,
                                    1073741823, 1073741824, IntMax}}

InitTwister ==
  /\ pc = "called"
  /\ \E max \in TwBounds : arg = [max |-> max, used |-> smear(max)]
  /\ res = -2
  /\ d1 = EmptyDeck /\ d2 = EmptyDeck /\ d3 = EmptyDeck
  /\ hist = [draws |-> 0, last |-> -1]
  /\ rp = NoRp
  /\ IdleSearch

\* One turn of the do-while: a word is drawn and masked; the loop goes on
\* or next_int returns a.
TwDraw ==
  /\ pc \in {"called", "redraw"}
  /\ \E w \in TwWords :
       LET a == mask_draw(w, arg.used)
       IN /\ hist' = [draws |-> 1, last |-> a]
          /\ IF redraw(a, arg.max)
             THEN pc' = "redraw" /\ res' = res
             ELSE pc' = "returned" /\ res' = a
  /\ UNCHANGED <<arg, d1, d2, d3, rp, sv>>

\* The next call, with a bound of its own.
TwCall ==
  /\ pc = "returned"
  /\ \E max \in TwBounds : arg' = [max |-> max, used |-> smear(max)]
  /\ pc' = "called"
  /\ res' = -2
  /\ hist' = [draws |-> 0, last |-> -1]
  /\ UNCHANGED <<d1, d2, d3, rp, sv>>

NextTwister == TwDraw \/ TwCall

SpecTwister == InitTwister /\ [][NextTwister]_vars

IsMask(u) == u = IntMax \/ \E k \in 0..30 : u = 2 ^ k - 1

\* C12: for 1 <= max < 2^31 the mask is the smallest 2^k - 1 that is at least
\* max - 1, every masked draw is within 0..mask, a draw that is at least max
\* is redrawn, and the value returned is within 0..max-1.
C12_NextIntWithinBound ==
  /\ IsMask(arg.used)
  /\ arg.used >= arg.max - 1
  /\ arg.used > 0 => arg.used \div 2 < arg.max - 1
  /\ hist.draws = 1 => (0 <= hist.last /\ hist.last <= arg.used)
  /\ pc = "redraw" => hist.last >= arg.max
  /\ pc = "returned" => (res = hist.last /\ 0 <= res /\ res < arg.max)

\* The bound 10, no power of two: its largest value is returned.
C12_Witness ==
  /\ pc = "returned"
  /\ arg.max = 10
  /\ res = 9

-----------------------------------------------------------------------------
(* The trial loop of main with a completion taken as one step *)

\* The most points of a replay of one completion: what its runs can reach
\* depends on the board and the catalogue.
TrialPoints == {0, 2, 30, 31, 40}

InitTally ==
  /\ pc = "tally"
  /\ arg = NoArg /\ res = -2
  /\ d1 = EmptyDeck /\ d2 = EmptyDeck /\ d3 = EmptyDeck
  /\ hist = [wins |-> 0, most |-> 0, own |-> 0]
  /\ rp = NoRp
  /\ IdleSearch

\* One turn of main's loop: play_randomized_deck resets best_state and its
\* runs raise it to the replay with the most points, own; then the two
\* counters are updated. hist counts the trials with own >= 31 and keeps
\* the largest own.
TallyTrial ==
  /\ pc = "tally"
  /\ cnt.trial < MaxTally
  /\ \E own \in TrialPoints :
       LET found == [NewState EXCEPT !.points = own]
           best == update_best(start_best(best_state), found)
       IN /\ best_state' = best
          /\ cnt' = [cnt EXCEPT
                       !.trial = @ + 1,
                       !.at_31 = IF best.points >= WinPoints
                                 THEN @ + 1 ELSE @,
                       !.mx = IF best.points > @ THEN best.points ELSE @]
          /\ hist' = [wins |-> IF own >= WinPoints
                               THEN hist.wins + 1 ELSE hist.wins,
                      most |-> IF own > hist.most THEN own ELSE hist.most,
                      own |-> own]
  /\ UNCHANGED <<pc, arg, res, d1, d2, d3, rp, t1, t2, t3, pool, st, cand,
                 refined>>

NextTally == TallyTrial

SpecTally == InitTally /\ [][NextTally]_vars

\* C13: after trial i, at_31 is the number of trials so far whose own best
\* replay had at least 31 points, mx is the largest such best, and
\* 0 <= at_31 <= i; best_state holds the points of the last trial only.
C13_TallyCountsOwnBest ==
  /\ cnt.at_31 = hist.wins
  /\ cnt.mx = hist.most
  /\ 0 <= cnt.at_31 /\ cnt.at_31 <= cnt.trial
  /\ best_state.points = hist.own

\* A trial that reached 31 points is followed by one that did not.
C13_Witness ==
  /\ cnt.trial >= 2
  /\ cnt.at_31 = 1
  /\ cnt.mx >= WinPoints
  /\ best_state.points < WinPoints

-----------------------------------------------------------------------------
(* One annealing step up to its successful mutation *)

\* Incumbents: resolved sequences of up to MaxIncumbent tokens, one round
\* and one card each.
Incumbents ==
  {[NewState EXCEPT !.move_sequence = ms,
                    !.rounds = Len(ms),
                    !.card_sequence = [i \in 1..Len(ms) |-> C_0_0_3_0_0_black]] :
     ms \in UNION {[1..n -> GenTokens] : n \in 0..MaxIncumbent}}

InitMutate ==
  /\ pc = "clone"
  /\ arg = NoArg /\ res = -2
  /\ d1 = EmptyDeck /\ d2 = EmptyDeck /\ d3 = EmptyDeck
  /\ hist = [attempts |-> 0]
  /\ rp = NoRp
  /\ t1 = EmptyDeck /\ t2 = EmptyDeck /\ t3 = EmptyDeck
  /\ pool = <<>>
  /\ st \in Incumbents
  /\ cand = NewState /\ refined = NewState /\ best_state = NewState
  /\ cnt = NoCnt

\* State cand = st; cand.card_sequence_sz = 0
Clone ==
  /\ pc = "clone"
  /\ cand' = CandOf(st, st.move_sequence)
  /\ pc' = "attempt"
  /\ UNCHANGED <<arg, res, d1, d2, d3, hist, rp, t1, t2, t3, pool, st,
                 refined, best_state, cnt>>

\* One call of cand.mutate with result m: the loop goes on when it is false.
Attempted(m) ==
  /\ cand' = [cand EXCEPT !.move_sequence = m.ms]
  /\ hist' = [attempts |-> hist.attempts + 1]
  /\ pc' = IF m.ok THEN "mutated" ELSE "attempt"
  /\ UNCHANGED <<arg, res, d1, d2, d3, rp, t1, t2, t3, pool, st, refined,
                 best_state, cnt>>

\* mod = 0. Without a token no position is drawn.
AttemptChange ==
  /\ pc = "attempt" /\ hist.attempts < MaxAttempts
  /\ IF Len(cand.move_sequence) = 0
     THEN Attempted(mutate_change(cand.move_sequence, 0, 0))
     ELSE \E pos \in 0..(Len(cand.move_sequence) - 1) :
            \E next \in GenTokens \ {cand.move_sequence[pos + 1]} :
              Attempted(mutate_change(cand.move_sequence, pos, next))

\* mod = 1
AttemptInsert ==
  /\ pc = "attempt" /\ hist.attempts < MaxAttempts
  /\ \E pos \in 0..Len(cand.move_sequence), tok \in GenTokens :
       Attempted(mutate_insert(cand.move_sequence, pos, tok))

\* mod = 2. Below three tokens no position is drawn.
AttemptSwap ==
  /\ pc = "attempt" /\ hist.attempts < MaxAttempts
  /\ IF Len(cand.move_sequence) < 3
     THEN Attempted(mutate_swap(cand.move_sequence, 0, 0))
     ELSE \E px, py \in 0..(Len(cand.move_sequence) - 1) :
            Attempted(mutate_swap(cand.move_sequence, px, py))

NextMutate == Clone \/ AttemptChange \/ AttemptInsert \/ AttemptSwap

SpecMutate == InitMutate /\ [][NextMutate]_vars

\* b is a with the token at one position replaced by another token.
IsChange(a, b) ==
  /\ Len(b) = Len(a)
  /\ Cardinality({i \in 1..Len(a) : a[i] # b[i]}) = 1

\* b is a with one token put in at some position.
IsInsert(a, b) ==
  /\ Len(b) = Len(a) + 1
  /\ \E p \in 1..Len(b) :
       a = [i \in 1..Len(a) |-> IF i < p THEN b[i] ELSE b[i + 1]]

\* b is a with two different tokens exchanged.
IsSwap(a, b) ==
  /\ Len(b) = Len(a)
  /\ \E p, q \in 1..Len(a) :
       /\ p # q /\ a[p] # a[q]
       /\ b = [a EXCEPT ![p] = a[q], ![q] = a[p]]

\* C14: while the attempts of a step fail the candidate has the sequence of
\* the incumbent; after the successful one it differs from it and is one
\* CHANGE, one INSERT or one SWAP away from it; the cloned candidate has the
\* counters of the incumbent and no cards.
C14_ExactlyOneMutation ==
  /\ pc = "attempt" => cand.move_sequence = st.move_sequence
  /\ pc = "mutated" =>
       /\ cand.move_sequence # st.move_sequence
       /\ \/ IsChange(st.move_sequence, cand.move_sequence)
          \/ IsInsert(st.move_sequence, cand.move_sequence)
          \/ IsSwap(st.move_sequence, cand.move_sequence)
  /\ pc \in {"attempt", "mutated"} =>
       /\ cand.points = st.points /\ cand.rounds = st.rounds
       /\ cand.card_sequence = <<>>

\* Two attempts failed and the third exchanged two tokens.
C14_Witness ==
  /\ pc = "mutated"
  /\ hist.attempts = 3
  /\ IsSwap(st.move_sequence, cand.move_sequence)
  /\ ~IsChange(st.move_sequence, cand.move_sequence)

-----------------------------------------------------------------------------
(* The search under fair draws *)

\* The steps of the program other than the calls of mutate.
ProgramStep ==
  \/ StartTrial \/ Fill1 \/ Fill1Done \/ Fill2 \/ SearchBeginSetting
  \/ StartRun \/ Play \/ Best \/ AcceptRefined \/ KeepIncumbent
  \/ EndRun \/ EndTrial

\* Boards that lack one card of tier 1 and one of tier 2: each fill adds it.
InitSearchFair ==
  /\ pc = "trial"
  /\ arg = NoArg /\ res = -2
  /\ d1 = BuildDeck(<<C_0_0_3_0_0_black, C_0_2_0_2_0_green>>, 2)
  /\ \E c \in {C_0_2_4_1_0_black, C_3_2_0_3_0_red} :
       d2 = BuildDeck(<<c, C_6_0_0_0_0_black>>, 2)
  /\ d3 = DeckOfCopies(C_6_0_6_8_6_red, 1)
  /\ hist = [maxpts |-> 0, prev |-> 0]
  /\ rp = NoRp
  /\ IdleSearch

\* The program runs on, and the draws are fair: while INSERT would succeed
\* it is drawn eventually, with some position and some token.
SpecSearchFair ==
  /\ InitSearchFair
  /\ [][NextSearch]_vars
  /\ WF_vars(ProgramStep)
  /\ WF_vars(MutateInsert)

\* C15: the retry loop of every annealing step is left for the replay,
\* every run ends, and the program ends, after the last trial and nowhere
\* else.
C15_SearchTerminates ==
  /\ (pc = "mutate" /\ cnt.step < MaxSteps) ~> (pc = "play")
  /\ (pc = "mutate") ~> (pc = "setting")
  /\ <>(pc = "done")
  /\ [](pc = "done" => cnt.trial = MaxTrials)

\* In a second run, on the empty incumbent, the retry loop was left: the
\* candidate has one token.
C15_Witness ==
  /\ pc = "play"
  /\ cnt.run = 1 /\ cnt.step = 0
  /\ st.move_sequence = <<>>
  /\ Len(cand.move_sequence) = 1

-----------------------------------------------------------------------------
(* The acceptance test of play_randomly and Twister::next_float *)

\* The bits of a float's mantissa.
MantissaBits == 24

RECURSIVE BitLen(_)
BitLen(a) == IF a = 0 THEN 0 ELSE 1 + BitLen(a \div 2)

\* The float nearest to a * 2^-31 (ties to the even mantissa), a below 2^31:
\* one when it is 1.0, else its value in units of 2^-31.
to_float(a) ==
  IF BitLen(a) <= MantissaBits THEN [one |-> FALSE, frac |-> a]
  ELSE LET sp == 2 ^ (BitLen(a) - MantissaBits)
           q == a \div sp
           rem == a % sp
           k == IF 2 * rem > sp \/ (2 * rem = sp /\ q % 2 = 1)
                THEN q + 1 ELSE q
       IN IF BitLen(a) = 31 /\ k = 2 ^ MantissaBits
          THEN [one |-> TRUE, frac |-> 0]
          ELSE [one |-> FALSE, frac |-> k * sp]

\* a = extract_number(ptr_++) & 0x7FFFFFFF; return a * 2^-31 as a float
next_float(w) == to_float(w.lo)

\* exp((refined.points - st.points) / temp) > u. With equal points the
\* quotient is 0 and exp gives 1.0; with more points the value is above 1;
\* with fewer it is e, in units of 2^-31, between 0 and 1.
accepts(diff, e, u) ==
  IF diff > 0 THEN TRUE
  ELSE IF diff = 0 THEN ~u.one
  ELSE ~u.one /\ e > u.frac

AcceptPoints == 0..3

\* Values of exp for a replay with fewer points, in units of 2^-31.
ExpVals == {1, 1073741824, 1302501000}

AcceptWords ==
  {Word(h, l) : h \in {0, 1},
                l \in {0, 1, 16777215, 16777217, 1073741824, 1302501000,
                       2147483583, 2147483584, IntMax}}

InitAccept ==
  /\ pc = "accept"
  /\ arg = NoArg /\ res = -2
  /\ d1 = EmptyDeck /\ d2 = EmptyDeck /\ d3 = EmptyDeck
  /\ hist = [u |-> [one |-> FALSE, frac |-> 0], was |-> NewState]
  /\ rp = NoRp
  /\ t1 = EmptyDeck /\ t2 = EmptyDeck /\ t3 = EmptyDeck
  /\ pool = <<>>
  /\ \E p \in AcceptPoints :
       st = [NewState EXCEPT !.points = p, !.move_sequence = <<0>>,
                            !.rounds = 1]
  /\ \E p \in AcceptPoints :
       refined = [NewState EXCEPT !.points = p, !.move_sequence = <<4>>,
                                 !.rounds = 1]
  /\ cand = NewState /\ best_state = NewState
  /\ cnt = NoCnt

\* Lines 429-431 with the word w drawn and e the value of exp when the
\* replay has fewer points; hist keeps the draw and the incumbent before.
AcceptTest ==
  /\ pc = "accept"
  /\ \E w \in AcceptWords, e \in ExpVals :
       LET u == next_float(w)
       IN /\ st' = IF accepts(refined.points - st.points, e, u)
                   THEN refined ELSE st
          /\ hist' = [u |-> u, was |-> st]
  /\ pc' = "decided"
  /\ UNCHANGED <<arg, res, d1, d2, d3, rp, t1, t2, t3, pool, cand, refined,
                 best_state, cnt>>

\* The next step, with a replay of its own.
AcceptNext ==
  /\ pc = "decided"
  /\ \E p \in AcceptPoints :
       refined' = [refined EXCEPT !.points = p]
  /\ pc' = "accept"
  /\ UNCHANGED <<arg, res, d1, d2, d3, hist, rp, t1, t2, t3, pool, st, cand,
                 best_state, cnt>>

NextAccept == AcceptTest \/ AcceptNext

SpecAccept == InitAccept /\ [][NextAccept]_vars

\* C16: a replay with at least the points of the incumbent is the incumbent
\* after the test, whatever was drawn.
C16_AtLeastEqualAccepted ==
  (pc = "decided" /\ refined.points >= hist.was.points) => st = refined

-----------------------------------------------------------------------------
(* Deck::fill_up_randomly on a deck of distinct cards *)

\* Distinct cards, the known ones first.
FillCards ==
  <<C_0_2_0_2_0_green, C_0_0_3_0_0_black, C_1_0_1_1_1_red, C_0_0_0_1_2_green,
    C_0_6_0_0_0_red, C_6_0_0_0_0_black, C_0_2_4_1_0_black, C_3_2_0_3_0_red,
    C_6_0_6_8_6_red>>

\* arg keeps the call: the size asked for, the deck and the pool given.
InitFill ==
  /\ pc = "fill"
  /\ \E n \in 0..MaxKnown, m \in 0..MaxPool, size \in 0..MaxTarget :
       /\ n + m <= Len(FillCards)
       /\ t1 = BuildDeck(FillCards, n)
       /\ pool = SubSeq(FillCards, n + 1, n + m)
       /\ arg = [desired_size |-> size, deck |-> t1, pool |-> pool]
  /\ res = -2
  /\ d1 = EmptyDeck /\ d2 = EmptyDeck /\ d3 = EmptyDeck
  /\ hist = [drawn |-> 0]
  /\ rp = NoRp
  /\ t2 = EmptyDeck /\ t3 = EmptyDeck
  /\ st = NewState /\ cand = NewState /\ refined = NewState
  /\ best_state = NewState
  /\ cnt = NoCnt

\* One turn of one of the two loops, x = next_int(v.size()) + 1.
FillTurn ==
  /\ pc = "fill"
  /\ fill_goes_on_to(arg.desired_size, t1, pool)
  /\ \E x \in 1..Len(pool) :
       /\ t1' = fill_step_to(arg.desired_size, t1, pool, x)
       /\ pool' = SwapPop(pool, x)
  /\ hist' = [drawn |-> hist.drawn + 1]
  /\ UNCHANGED <<pc, arg, res, d1, d2, d3, rp, t2, t3, st, cand, refined,
                 best_state, cnt>>

\* Neither loop goes on: fill_up_randomly returns.
FillReturn ==
  /\ pc = "fill"
  /\ ~fill_goes_on_to(arg.desired_size, t1, pool)
  /\ pc' = "filled"
  /\ UNCHANGED <<arg, res, d1, d2, d3, hist, rp, t1, t2, t3, pool, st, cand,
                 refined, best_state, cnt>>

NextFill == FillTurn \/ FillReturn

SpecFill == InitFill /\ [][NextFill]_vars

SeqSet(v) == {v[i] : i \in 1..Len(v)}

\* C17: the cards the deck had keep their places; the deck holds no card
\* twice and every other card of it is from the pool, which has lost it; the
\* backlog grows only once the table has 4 cards and, when it started
\* within the size asked for, stays within it; at the return the table has
\* 4 cards and the backlog the size asked for, or the pool is empty.
C17_FillAddsPoolCardsOnce ==
  /\ \A i \in 0..(arg.deck.table_sz - 1) : t1.table[i] = arg.deck.table[i]
  /\ SubSeq(t1.q, 1, arg.deck.q_sz) = arg.deck.q
  /\ Cardinality(to_set(t1)) = t1.table_sz + t1.q_sz
  /\ to_set(t1) = to_set(arg.deck) \cup (SeqSet(arg.pool) \ SeqSet(pool))
  /\ Cardinality(SeqSet(pool)) = Len(pool)
  /\ t1.table_sz + t1.q_sz + Len(pool)
       = arg.deck.table_sz + arg.deck.q_sz + Len(arg.pool)
  /\ t1.q_sz > arg.deck.q_sz => t1.table_sz = TableSlots
  /\ t1.table_sz <= TableSlots /\ t1.q_sz = Len(t1.q)
  /\ arg.deck.q_sz <= arg.desired_size => t1.q_sz <= arg.desired_size
  /\ arg.deck.q_sz > arg.desired_size => t1.q = arg.deck.q
  /\ pc = "filled" =>
       \/ pool = <<>>
       \/ t1.table_sz = TableSlots /\ t1.q_sz >= arg.desired_size

\* A deck of three cards got one card on its table and one in its backlog,
\* the size asked for, and one card is left in the pool.
C17_Witness ==
  /\ pc = "filled"
  /\ arg.deck.table_sz = 3 /\ arg.desired_size = 1
  /\ t1.table_sz = TableSlots /\ t1.q_sz = 1
  /\ Len(pool) = 1

-----------------------------------------------------------------------------
(* Annealing steps with every token the generator draws *)

TokenLimit == 10

\* next_int(11): one token more.
AllTokensWide == 0..TokenLimit

\* The values of twister->next_int(10)
AllTokens == 0..(TokenLimit - 1)

\* Candidates whose replays are the incumbents the steps start from.
TokStarts == {<<>>, <<0, 7, 5>>}

\* A full board of the sample cards; tier 3 has its two cards twice.
InitTokens ==
  /\ pc = "mutate"
  /\ arg = NoArg /\ res = -2
  /\ d1 = EmptyDeck /\ d2 = EmptyDeck /\ d3 = EmptyDeck
  /\ hist = [bought |-> {}]
  /\ rp = NoRp
  /\ t1 = BuildDeck(<<C_0_0_3_0_0_black, C_0_2_0_2_0_green,
                      C_1_0_1_1_1_red, C_0_0_0_1_2_green>>, 4)
  /\ \E c \in {C_0_2_4_1_0_black, C_6_0_0_0_0_black} :
       t2 = BuildDeck(<<c, C_3_2_0_3_0_red, C_0_6_0_0_0_red,
                        C_0_2_4_1_0_black>>, 4)
  /\ t3 = BuildDeck(<<C_6_0_6_8_6_red, C_6_8_6_6_0_white,
                      C_6_0_6_8_6_red, C_6_8_6_6_0_white>>, 4)
  /\ pool = <<>>
  /\ \E s \in TokStarts : st = play_out(t1, t2, t3, s)
  /\ cand = NewState /\ refined = NewState
  /\ best_state = st
  /\ cnt = NoCnt

TokMutateTo(m) ==
  /\ m.ok
  /\ cand' = CandOf(st, m.ms)
  /\ pc' = "play"
  /\ UNCHANGED <<arg, res, d1, d2, d3, hist, rp, t1, t2, t3, pool, st,
                 refined, best_state, cnt>>

\* The retry loop up to its successful mutation, with any token drawn.
TokMutate ==
  /\ pc = "mutate" /\ cnt.step < MaxTokSteps
  /\ \/ \E pos \in 0..(Len(st.move_sequence) - 1) :
          \E next \in AllTokens \ {st.move_sequence[pos + 1]} :
            TokMutateTo(mutate_change(st.move_sequence, pos, next))
     \/ \E pos \in 0..Len(st.move_sequence), tok \in AllTokens :
          TokMutateTo(mutate_insert(st.move_sequence, pos, tok))
     \/ \E px, py \in 0..(Len(st.move_sequence) - 1) :
          TokMutateTo(mutate_swap(st.move_sequence, px, py))

\* The replay and the test of best_state; hist keeps the deck and slot of
\* every card a replay has bought.
TokPlay ==
  /\ pc = "play"
  /\ LET r == replay_candidate(t1, t2, t3, cand.move_sequence)
     IN /\ refined' = r
        /\ best_state' = update_best(best_state, r)
        /\ hist' = [bought |-> hist.bought \cup
                      {<<IF r.move_sequence[i] < 4 THEN 1
                         ELSE IF r.move_sequence[i] < 8 THEN 2 ELSE 3,
                         r.move_sequence[i] % 4>> :
                         i \in 1..Len(r.move_sequence)}]
  /\ pc' = "accept"
  /\ UNCHANGED <<arg, res, d1, d2, d3, rp, t1, t2, t3, pool, st, cand, cnt>>

\* The acceptance test, either way, and the end of the turn.
TokAccept ==
  /\ pc = "accept"
  /\ \/ st' = refined
     \/ refined.points <= st.points /\ st' = st
  /\ cnt' = [cnt EXCEPT !.step = @ + 1]
  /\ pc' = "mutate"
  /\ UNCHANGED <<arg, res, d1, d2, d3, hist, rp, t1, t2, t3, pool, cand,
                 refined, best_state>>

NextTokens == TokMutate \/ TokPlay \/ TokAccept

SpecTokens == InitTokens /\ [][NextTokens]_vars

TokensOf(s) == {s.move_sequence[i] : i \in 1..Len(s.move_sequence)}

\* C18: every token of the incumbent, the candidate, the replay and the
\* best replay is within 0..9, so the slots bought are slots 0..3 of tiers 1
\* and 2 and slots 0..1 of tier 3; slots 2 and 3 of tier 3 are never bought.
C18_TokensBelowTen ==
  /\ \A s \in {st, cand, refined, best_state} : TokensOf(s) \subseteq 0..9
  /\ hist.bought \subseteq ({1, 2} \X (0..3)) \cup ({3} \X (0..1))
  /\ <<3, 2>> \notin hist.bought /\ <<3, 3>> \notin hist.bought
  /\ LET r == PlayFrom(PlayStart(t1, t2, t3), cand.move_sequence, 1)
     IN r.d3.table[2] = t3.table[2] /\ r.d3.table[3] = t3.table[3]

\* The candidate names slot 1 of tier 3 and the replay bought slot 3 of
\* tier 2.
C18_Witness ==
  /\ pc = "accept"
  /\ 9 \in TokensOf(cand)
  /\ 7 \in TokensOf(refined)
  /\ <<2, 3>> \in hist.bought

-----------------------------------------------------------------------------
(* The round budget of a resolved state *)

\* The "cc" value State::print shows with a solution.
cc(s) == s.rounds + ((s.tokens_cost + 3) \div TokensPerRound)

\* C19: after every token of a replay the resolved state has
\* rounds + ceil(tokens_cost / 4) <= 28, which is the cc value that is
\* printed; rounds is the number of resolved moves, so rounds <= 28 and the
\* resolved sequences hold at most 28 moves.
C19_ResolvedWithinBudget ==
  pc = "replay" =>
    /\ rp.s.rounds + CeilDiv(rp.s.tokens_cost, 4) <= 28
    /\ cc(rp.s) = rp.s.rounds + CeilDiv(rp.s.tokens_cost, 4)
    /\ rp.s.rounds = Len(rp.s.move_sequence)
    /\ rp.s.rounds <= 28
    /\ Len(rp.s.move_sequence) <= 28 /\ Len(rp.s.card_sequence) <= 28

\* C19 witness: a committed move brings cc to 28 with tokens_cost not a
\* multiple of 4, so the rounding up counts.
C19_Witness ==
  /\ pc = "replay" /\ hist.ok
  /\ cc(rp.s) = 28
  /\ rp.s.tokens_cost % 4 # 0

-----------------------------------------------------------------------------
(* Replaying a resolved sequence *)

\* The resolved sequence of s replayed against the decks of the search.
Replayed(s) == play_out(t1, t2, t3, s.move_sequence)

\* C20: replaying the resolved move sequence of a replay against the same
\* three decks commits every token and gives the same resolved sequence,
\* points, tokens_cost and rounds; so the incumbent's points (and the best
\* replay's) are the points of the replay of its own move sequence.
C20_ReplayIdempotent ==
  \A s \in {refined, st, best_state} :
    /\ Len(Replayed(s).move_sequence) = Len(s.move_sequence)
    /\ Replayed(s).move_sequence = s.move_sequence
    /\ Replayed(s).points = s.points
    /\ Replayed(s).tokens_cost = s.tokens_cost
    /\ Replayed(s).rounds = s.rounds

\* C20 witness: a replay that dropped a token of its candidate and committed
\* three, scoring points, next to an incumbent with points of its own.
C20_Witness ==
  /\ pc = "accept"
  /\ Len(cand.move_sequence) = 4 /\ Len(refined.move_sequence) = 3
  /\ refined.points > 0 /\ st.points > 0
  /\ refined.move_sequence # st.move_sequence

====
